---- MODULE Spec2Model ----
(***************************************************************************)
(* Model of the Perplexity client library (PerplexityClient), the Express  *)
(* server built on it (server.js), the browser chat (PerplexityChat) that   *)
(* talks to the server, and the context-window policy they share.  Strings are TLA+ strings: Len, \o and SubSeq act on them as the *)
(* JavaScript length, + and substring do.                                  *)
(***************************************************************************)
EXTENDS Integers, Sequences, FiniteSets, TLC

VARIABLES
    ssMessages,     \* shouldSummarize harness: the conversation passed in
    ssThresholds,   \* shouldSummarize harness: <<maxMessages, maxTokensEstimate>>
    ssResult,       \* shouldSummarize harness: <<>> or <<returned boolean>>
    ssAppends,      \* shouldSummarize harness: turns appended so far
    ssSeenTrue,     \* shouldSummarize harness: a call on an earlier, shorter state of
                    \*   the conversation returned true
    env,            \* process.env: PERPLEXITY_DEFAULT_MODEL and PERPLEXITY_API_KEY,
                    \*   each "" when unset
    cCall,          \* library caller: <<>> or <<[method, question, context, messages, options]>>
    cPc,            \* library caller: "idle", "awaiting", "returned", "thrown"
    cRequests,      \* library caller: outbound provider requests of the invocation
    cResult,        \* library caller: <<>> or <<what the method returned or threw>>
    cPrev,          \* library caller: <<>> or <<the previous invocation, as observed>>
    sReq,           \* server: <<>> or <<[endpoint, body]>>, the request being handled
    sPc,            \* server: where the handler is: "idle", "summarize", "complete",
                    \*   "stream", "done", or "rejected" (its promise rejected)
    sRes,           \* server: the response, [statusCode, headersSent, json, events, conn]
    sLoc,           \* server: the handler's locals
    sRequests,      \* server: outbound provider requests made for the request
    bHistory,       \* browser: chatHistory
    bStreaming,     \* browser: isStreaming
    bDisabled,      \* browser: messageInput.disabled and sendBtn.disabled
    bTurn,          \* browser: the handleSendMessage in flight, or the last one
    bErrors,        \* browser: the set of texts addErrorMessage has shown since the last send
    bSumm,          \* browser: the manual summarizeConversation in flight, and whether
                    \*   the summarize button is displayed
    bReplaced,      \* browser: one [before, from] per summary applied: the history it
                    \*   replaced, and the history it was computed from
    bSends          \* browser: messages sent so far

ssVars == <<ssMessages, ssThresholds, ssResult, ssAppends, ssSeenTrue>>
cVars == <<cCall, cPc, cRequests, cResult, cPrev>>
sVars == <<sReq, sPc, sRes, sLoc, sRequests>>
bVars == <<bHistory, bStreaming, bDisabled, bTurn, bErrors, bSumm, bReplaced, bSends>>
vars == <<ssVars, env, cVars, sVars, bVars>>

----------------------------------------------------------------------------
(* Strings and messages *)

RECURSIVE Repeat(_, _)
Repeat(s, n) ==
    IF n = 0 THEN ""
    ELSE IF n % 2 = 0 THEN LET h == Repeat(s, n \div 2) IN h \o h
    ELSE s \o Repeat(s, n - 1)

Msg(r, c) == [role |-> r, content |-> c]

\* messages.reduce((sum, msg) => sum + msg.content.length, 0)
RECURSIVE totalChars(_)
totalChars(messages) ==
    IF messages = <<>> THEN 0
    ELSE Len(Head(messages).content) + totalChars(Tail(messages))

DefaultMaxMessages == 20
DefaultMaxTokensEstimate == 3000

\* A plausible slip: the count threshold read as "more than maxMessages".
ShouldSummarizeStrictCount(messages, maxMessages, maxTokensEstimate) ==
    IF Len(messages) > maxMessages THEN TRUE
    ELSE totalChars(messages) >= maxTokensEstimate * 4

\* A plausible slip: the token threshold read as "exceeds".
ShouldSummarizeStrictTokens(messages, maxMessages, maxTokensEstimate) ==
    IF Len(messages) >= maxMessages THEN TRUE
    ELSE totalChars(messages) > maxTokensEstimate * 4

\* A plausible slip: the two thresholds joined by "and".
ShouldSummarizeBoth(messages, maxMessages, maxTokensEstimate) ==
    Len(messages) >= maxMessages /\ totalChars(messages) >= maxTokensEstimate * 4

\* A plausible slip: the count threshold tested with equality.
ShouldSummarizeExactCount(messages, maxMessages, maxTokensEstimate) ==
    IF Len(messages) = maxMessages THEN TRUE
    ELSE totalChars(messages) >= maxTokensEstimate * 4

\* PerplexityClient.shouldSummarize
ShouldSummarize(messages, maxMessages, maxTokensEstimate) ==
    IF Len(messages) >= maxMessages THEN TRUE
    ELSE totalChars(messages) >= maxTokensEstimate * 4

----------------------------------------------------------------------------
(* JavaScript values *)

\* an object is a function from its keys; {...a, ...b}
Spread(a, b) == [k \in DOMAIN a \cup DOMAIN b |-> IF k \in DOMAIN b THEN b[k] ELSE a[k]]
EmptyObject == <<>>
Has(o, k) == k \in DOMAIN o
Without(o, keys) == [k \in DOMAIN o \ keys |-> o[k]]

\* a value held under the key "messages": an array of messages, or anything else
Arr(items) == [isArray |-> TRUE, truthy |-> TRUE, items |-> items]
NotArr(t) == [isArray |-> FALSE, truthy |-> t, items |-> <<>>]

StartsWith(s, p) == Len(s) >= Len(p) /\ SubSeq(s, 1, Len(p)) = p

\* new Error(message): an error with neither a response nor a request
Error(m) == [response |-> <<>>, request |-> FALSE, message |-> m]

\* what axios rejects with: a response with a failure status, a request that
\* got no response (timeout, connection failure), or a failure before sending
AxiosResponseError(status, statusText, data) ==
    [response |-> << [status |-> status, statusText |-> statusText, data |-> data] >>,
     request |-> TRUE,
     message |-> "Request failed with status code " \o ToString(status)]
AxiosNoResponse(m) == [response |-> <<>>, request |-> TRUE, message |-> m]
AxiosSetupError(m) == [response |-> <<>>, request |-> FALSE, message |-> m]

NoResponseMessage == "No response from Perplexity API. Check your internet connection."

\* PerplexityClient.handleError: the Error it throws.  data is
\* [errorMessage |-> data?.error?.message, message |-> data?.message], "" when
\* the field is missing (missing and "" are both falsy).
HandleError(error) ==
    IF error.response # <<>>
    THEN LET r == error.response[1] IN
         Error("Perplexity API Error " \o ToString(r.status) \o " (" \o r.statusText \o "): "
               \o (IF r.data.errorMessage # "" THEN r.data.errorMessage
                   ELSE IF r.data.message # "" THEN r.data.message
                   ELSE "Unknown error"))
    ELSE IF error.request
    THEN Error(NoResponseMessage)
    ELSE Error("Request Error: " \o error.message)

\* the outcome of an awaited call: a value, or a thrown error
Returned(v) == [ok |-> TRUE, value |-> v]
Thrown(e) == [ok |-> FALSE, error |-> e]

----------------------------------------------------------------------------
(* The provider *)

\* response.data of a successful call: {choices: [{message: {content}}]}
OkData(choices) == [choices |-> choices]

ProviderSuccesses ==
    { [ok |-> TRUE, data |-> OkData(c)] : c \in { <<"Paris">>, <<"hello big world">>, <<"">>, <<>> } }

ProviderFailures ==
    { [ok |-> FALSE, error |-> e] : e \in
        { AxiosResponseError(401, "Unauthorized", [errorMessage |-> "Invalid API key", message |-> ""]),
          AxiosResponseError(429, "Too Many Requests", [errorMessage |-> "", message |-> "Rate limited"]),
          AxiosResponseError(500, "Internal Server Error", [errorMessage |-> "", message |-> ""]),
          AxiosNoResponse("timeout of 30000ms exceeded"),
          AxiosNoResponse("Network Error"),
          AxiosSetupError("Invalid URL") } }

ProviderOutcomes == ProviderSuccesses \cup ProviderFailures

\* response.choices?.[0]?.message?.content || fallback
FirstContentOr(data, fallback) ==
    IF data.choices # <<>> /\ data.choices[1] # "" THEN data.choices[1] ELSE fallback

----------------------------------------------------------------------------
(* PerplexityClient: the methods up to and after their one await *)

DefaultModel == IF env.PERPLEXITY_DEFAULT_MODEL # "" THEN env.PERPLEXITY_DEFAULT_MODEL ELSE "sonar"

\* chatCompletion, lines 884-886: !messages || !Array.isArray(messages)
MessagesInvalid(options) ==
    ~Has(options, "messages") \/ ~options.messages.truthy \/ ~options.messages.isArray

\* chatCompletion, lines 875-895: requestData
RequestData(options) ==
    Spread([model |-> DefaultModel, max_tokens |-> 1000, temperature |-> "0.2", stream |-> FALSE],
           options)

\* chatCompletion, line 897: the request handed to axios
PostChatCompletions(options) ==
    [path |-> "/chat/completions", data |-> RequestData(options), outcome |-> <<>>]

\* chatCompletion when the messages are rejected: the throw of line 885 is
\* caught at line 899 and goes through handleError
ChatCompletionRejected == Thrown(HandleError(Error("Messages array is required")))

\* chatCompletion after the await of line 897
ChatCompletionSettled(outcome) ==
    IF outcome.ok THEN Returned(outcome.data) ELSE Thrown(HandleError(outcome.error))

\* getModels, line 1053: the request handed to axios
GetModels == [path |-> "/models", data |-> EmptyObject, outcome |-> <<>>]

\* getModels after the await of line 1053
GetModelsSettled(outcome) ==
    IF outcome.ok THEN Returned(outcome.data) ELSE Thrown(HandleError(outcome.error))

\* A plausible slip: a mask of fixed length, as in the example of the JSDoc.
GetApiKeyFixedMask(apiKey) ==
    IF apiKey = "" THEN "No API key set"
    ELSE SubSeq(apiKey, 1, IF Len(apiKey) < 8 THEN Len(apiKey) ELSE 8) \o "*****"

\* getApiKey: substring(0, 8) followed by '*'.repeat(Math.max(0, length - 8))
GetApiKey(apiKey) ==
    IF apiKey = "" THEN "No API key set"
    ELSE SubSeq(apiKey, 1, IF Len(apiKey) < 8 THEN Len(apiKey) ELSE 8)
         \o Repeat("*", IF Len(apiKey) > 8 THEN Len(apiKey) - 8 ELSE 0)

\* ask, lines 922-932: the options handed to chatCompletion
AskOptions(question, options) ==
    Spread([messages |-> Arr(<< Msg("user", question) >>)], options)

\* A plausible slip: the question is put in front of the context.
AskWithContextOptionsPrepend(question, context, options) ==
    Spread([messages |-> Arr(<< Msg("user", question) >> \o context)], options)

\* askWithContext, lines 960-968
AskWithContextOptions(question, context, options) ==
    Spread([messages |-> Arr(context \o << Msg("user", question) >>)], options)

\* summarizeConversation, lines 995-997: messages.map(...).join('\n')
RECURSIVE conversationText(_)
conversationText(messages) ==
    IF messages = <<>> THEN ""
    ELSE LET line == Head(messages).role \o ": " \o Head(messages).content IN
         IF Len(messages) = 1 THEN line
         ELSE line \o "\n" \o conversationText(Tail(messages))

SummaryInstruction ==
    "Please provide a concise summary of the following conversation, capturing the key points, context, and important details that should be remembered for future messages. Focus on the main topics discussed and any important information shared:"

\* summarizeConversation, lines 999-1003
summaryPrompt(messages) ==
    SummaryInstruction \o "\n\n" \o conversationText(messages) \o "\n\nSummary:"

\* summarizeConversation, lines 1005-1009
SummarizeOptions(messages, options) ==
    Spread([messages |-> Arr(<< Msg("user", summaryPrompt(messages)) >>), max_tokens |-> 500],
           options)

\* askWithContext, lines 960-963: the list is built by spreading the context
\* into a new array, so the caller's array is as it was
ContextAfterAsk(question, context) == context

\* A plausible change: an answer without choices is raised as an error.
AskSettledStrict(cc) ==
    IF cc.ok
    THEN IF FirstContentOr(cc.value, "") = ""
         THEN Thrown(HandleError(Error("No response received")))
         ELSE Returned(FirstContentOr(cc.value, ""))
    ELSE Thrown(HandleError(cc.error))

\* ask / askWithContext after chatCompletion settled: lines 934-937, 970-973
AskSettled(cc) ==
    IF cc.ok THEN Returned(FirstContentOr(cc.value, "No response received"))
    ELSE Thrown(HandleError(cc.error))

\* summarizeConversation after chatCompletion settled: lines 1011-1014
SummarizeSettled(cc) ==
    IF cc.ok THEN Returned(FirstContentOr(cc.value, "Unable to generate summary"))
    ELSE Thrown(HandleError(cc.error))

----------------------------------------------------------------------------
(* Harness of the pure predicate: a caller-owned conversation that grows by *)
(* appending, and calls of shouldSummarize on it.                           *)

MaxAppend == 3

Roles == {"user", "assistant"}
ShortContents == {"", "a", "abc"}
AppendMsgs == {Msg(r, c) : r \in Roles, c \in ShortContents}

ScenarioMessages ==
    << Msg("user", "Hi, I want to learn about AI"),
       Msg("assistant", "I'd be happy to help!"),
       Msg("user", "What are neural networks?") >>

EmptyTurns(n) == [i \in 1..n |-> Msg(IF i % 2 = 1 THEN "user" ELSE "assistant", "")]

SeedConversations ==
    { <<>>,
      ScenarioMessages,
      EmptyTurns(DefaultMaxMessages - 2),
      << Msg("user", Repeat("x", DefaultMaxTokensEstimate * 4 - 4)) >> }

ThresholdPairs ==
    { <<DefaultMaxMessages, DefaultMaxTokensEstimate>>,
      <<2, 1>>, <<4, 1>>, <<4, 2>>, <<3, 1>> }

ApiKey == "pplx-0123456789abcdef"
\* keys longer than, as long as, one longer than and shorter than the 8
\* characters getApiKey shows
ApiKeys == {ApiKey, "pplx-abc", "pplx-abcd", "key"}

\* gone: <<>> while the client is connected, else << the number of events
\* written when it disconnected >>
NoResponseYet ==
    [statusCode |-> 0, headersSent |-> FALSE, json |-> <<>>, events |-> <<>>, conn |-> "open",
     gone |-> <<>>]
NoLocals == [finalMessages |-> <<>>, wassummarized |-> FALSE, summaryText |-> "", words |-> <<>>, i |-> 0]

sIdle ==
    /\ sReq = <<>> /\ sPc = "idle" /\ sRes = NoResponseYet /\ sLoc = NoLocals /\ sRequests = <<>>

cIdle ==
    /\ cCall = <<>> /\ cPc = "idle" /\ cRequests = <<>> /\ cResult = <<>> /\ cPrev = <<>>

NoTurn ==
    [pc |-> "idle", mode |-> "", assistantMessage |-> "", read |-> 0, appended |-> 0,
     outcome |-> ""]
\* the summarize button is taken to be hidden in the page as loaded, which is
\* the state clearChat puts it in for an empty chat
NoSummarize == [pc |-> "idle", sent |-> <<>>, shown |-> FALSE]

\* the PerplexityChat constructor
bIdle ==
    /\ bHistory = <<>> /\ bStreaming = TRUE /\ bDisabled = FALSE
    /\ bTurn = NoTurn /\ bErrors = {} /\ bSumm = NoSummarize /\ bReplaced = <<>>
    /\ bSends = 0

ssIdle ==
    /\ ssMessages = <<>>
    /\ ssThresholds = <<DefaultMaxMessages, DefaultMaxTokensEstimate>>
    /\ ssResult = <<>>
    /\ ssAppends = 0
    /\ ssSeenTrue = FALSE

SSInit ==
    /\ env = [PERPLEXITY_DEFAULT_MODEL |-> "", PERPLEXITY_API_KEY |-> ApiKey]
    /\ cIdle
    /\ sIdle
    /\ bIdle
    /\ ssMessages \in SeedConversations
    /\ ssThresholds \in ThresholdPairs
    /\ ssResult = <<>>
    /\ ssAppends = 0
    /\ ssSeenTrue = FALSE

\* the caller appends a turn to its conversation
SSAppend(m) ==
    /\ ssAppends < MaxAppend
    /\ ssMessages' = Append(ssMessages, m)
    /\ ssAppends' = ssAppends + 1
    /\ ssSeenTrue' = (ssSeenTrue \/ ssResult = << TRUE >>)
    /\ ssResult' = <<>>
    /\ UNCHANGED <<ssThresholds, env, bVars, cVars, sVars>>

\* client.shouldSummarize(messages, maxMessages, maxTokensEstimate)
SSCall ==
    /\ ssResult = <<>>
    /\ ssResult' = << ShouldSummarize(ssMessages, ssThresholds[1], ssThresholds[2]) >>
    /\ UNCHANGED <<ssMessages, ssThresholds, ssAppends, ssSeenTrue, env, bVars, cVars, sVars>>

SSNext ==
    \/ \E m \in AppendMsgs : SSAppend(m)
    \/ SSCall

SpecPure == SSInit /\ [][SSNext]_vars

----------------------------------------------------------------------------
(* A caller of the library: one method invocation at a time *)

Questions == {"What is the capital of France?"}
Contexts ==
    { <<>>,
      << Msg("user", "Hi, I want to learn about AI"), Msg("assistant", "I'd be happy to help!") >>,
      EmptyTurns(DefaultMaxMessages) }
OptionBags ==
    { EmptyObject,
      [max_tokens |-> 50],
      [model |-> "sonar-pro", temperature |-> "0.7"],
      [messages |-> Arr(<< Msg("user", "override") >>)],
      [messages |-> NotArr(TRUE)] }
CompletionOptionBags ==
    { [messages |-> Arr(<<>>)],
      [messages |-> Arr(ScenarioMessages), max_tokens |-> 300, temperature |-> "0.3"],
      [messages |-> Arr(<< Msg("user", "Hello!") >>), stream |-> TRUE],
      [messages |-> NotArr(TRUE)],
      [messages |-> NotArr(FALSE)],
      [model |-> "sonar"] }

Call(method, question, context, messages, options) ==
    [method |-> method, question |-> question, context |-> context,
     messages |-> messages, options |-> options]

Calls ==
    {Call("chatCompletion", "", <<>>, <<>>, o) : o \in CompletionOptionBags}
    \cup {Call("ask", q, <<>>, <<>>, o) : q \in Questions, o \in OptionBags}
    \cup {Call("askWithContext", q, c, <<>>, o) : q \in Questions, c \in Contexts, o \in OptionBags}
    \cup {Call("summarizeConversation", "", <<>>, m, o) : m \in Contexts \cup {ScenarioMessages}, o \in OptionBags}
    \cup {Call("getModels", "", <<>>, <<>>, EmptyObject)}

\* the options with which the method invokes chatCompletion
CallOptions(call) ==
    CASE call.method = "chatCompletion" -> call.options
      [] call.method = "ask" -> AskOptions(call.question, call.options)
      [] call.method = "askWithContext" ->
            AskWithContextOptions(call.question, call.context, call.options)
      [] call.method = "summarizeConversation" -> SummarizeOptions(call.messages, call.options)
      [] call.method = "getModels" -> EmptyObject

\* what the method does with the settled chatCompletion
CallSettled(call, cc) ==
    CASE call.method = "chatCompletion" -> cc
      [] call.method \in {"ask", "askWithContext"} -> AskSettled(cc)
      [] call.method = "summarizeConversation" -> SummarizeSettled(cc)

\* what the method does once its provider request is settled
MethodSettled(call, outcome) ==
    IF call.method = "getModels" THEN GetModelsSettled(outcome)
    ELSE CallSettled(call, ChatCompletionSettled(outcome))

\* the caller's context array once the method has built its message list
ContextAfter(call) ==
    IF call.method = "askWithContext" THEN ContextAfterAsk(call.question, call.context)
    ELSE call.context

CInit ==
    /\ env \in {[PERPLEXITY_DEFAULT_MODEL |-> m, PERPLEXITY_API_KEY |-> ApiKey] : m \in {"", "sonar-pro"}}
    /\ cIdle
    /\ sIdle
    /\ ssIdle
    /\ bIdle

\* the method runs up to the await of chatCompletion line 897 (of getModels
\* line 1053), or throws
CInvoke(call) ==
    /\ cPc = "idle"
    /\ cCall' = << Spread([contextAfter |-> ContextAfter(call)], call) >>
    /\ IF call.method = "getModels"
       THEN /\ cRequests' = << GetModels >>
            /\ cResult' = <<>>
            /\ cPc' = "awaiting"
       ELSE IF MessagesInvalid(CallOptions(call))
       THEN /\ cRequests' = <<>>
            /\ cResult' = << CallSettled(call, ChatCompletionRejected) >>
            /\ cPc' = "thrown"
       ELSE /\ cRequests' = << PostChatCompletions(CallOptions(call)) >>
            /\ cResult' = <<>>
            /\ cPc' = "awaiting"
    /\ UNCHANGED <<ssVars, env, bVars, cPrev, sVars>>

\* A plausible change: a request that got no response is sent once more.
CSettleRetrying(outcome) ==
    /\ cPc = "awaiting"
    /\ IF ~outcome.ok /\ outcome.error.response = <<>> /\ outcome.error.request
          /\ Len(cRequests) = 1
       THEN /\ cRequests' = << [cRequests[1] EXCEPT !.outcome = << outcome >>],
                               cRequests[1] >>
            /\ UNCHANGED <<cResult, cPc>>
       ELSE /\ cRequests' = [cRequests EXCEPT ![Len(cRequests)].outcome = << outcome >>]
            /\ cResult' = << MethodSettled(cCall[1], outcome) >>
            /\ cPc' = IF cResult'[1].ok THEN "returned" ELSE "thrown"
    /\ UNCHANGED <<ssVars, env, bVars, cCall, cPrev, sVars>>

\* the provider call settles and the method runs to its end
CSettle(outcome) ==
    /\ cPc = "awaiting"
    /\ cRequests' = [cRequests EXCEPT ![Len(cRequests)].outcome = << outcome >>]
    /\ cResult' = << MethodSettled(cCall[1], outcome) >>
    /\ cPc' = IF cResult'[1].ok THEN "returned" ELSE "thrown"
    /\ UNCHANGED <<ssVars, env, bVars, cCall, cPrev, sVars>>

\* the caller has its result and goes on to its next invocation
CNextCall ==
    /\ cPc \in {"returned", "thrown"}
    /\ cPrev' = << [method |-> cCall[1].method, requests |-> cRequests, result |-> cResult[1]] >>
    /\ cCall' = <<>> /\ cRequests' = <<>> /\ cResult' = <<>>
    /\ cPc' = "idle"
    /\ UNCHANGED <<ssVars, env, bVars, sVars>>

CNext ==
    \/ \E call \in Calls : CInvoke(call)
    \/ \E outcome \in ProviderOutcomes : CSettle(outcome)
    \/ CNextCall

SpecClient == CInit /\ [][CNext]_vars

----------------------------------------------------------------------------
(* The server: response object, events and the pieces of the handlers *)

\* fullResponse.split(' ')
RECURSIVE Split(_, _)
Split(s, sep) ==
    LET hits == {i \in 1..Len(s) : SubSeq(s, i, i) = sep} IN
    IF hits = {} THEN << s >>
    ELSE LET first == CHOOSE i \in hits : \A j \in hits : i <= j IN
         << SubSeq(s, 1, first - 1) >> \o Split(SubSeq(s, first + 1, Len(s)), sep)

\* res.writeHead(code, headers)
WriteHead(res, code) == [res EXCEPT !.statusCode = code, !.headersSent = TRUE]
\* res.write(`data: ${JSON.stringify(event)}\n\n`)
Write(res, event) == [res EXCEPT !.events = Append(@, event)]
\* res.end()
End(res) == [res EXCEPT !.conn = "ended"]
\* res.status(code).json(body), which needs the headers not to be sent yet
Json(res, code, body) ==
    [res EXCEPT !.statusCode = code, !.headersSent = TRUE, !.json = << body >>, !.conn = "ended"]
\* res.json sets Content-Type: Node throws ERR_HTTP_HEADERS_SENT once writeHead ran
JsonThrows(res) == res.headersSent

\* the events of /chat-stream
StatusEvent(m) == [type |-> "status", message |-> m]
SummaryEvent(summary, n) == [type |-> "summary", summary |-> summary, originalMessageCount |-> n]
ContentEvent(chunk) == [type |-> "content", content |-> chunk]
\* A plausible slip: the summary text is sent whether or not it was used.
DoneEventRawSummary(summarized, summaryText) ==
    [type |-> "done", summarized |-> summarized, summary |-> << summaryText >>]

DoneEvent(summarized, summaryText) ==
    [type |-> "done", summarized |-> summarized,
     summary |-> IF summarized THEN << summaryText >> ELSE <<>>]
ErrorEvent(m) == [type |-> "error", error |-> m]
\* the events of /ask-stream, which carry no type: a delta, the literal [DONE],
\* and {"error": message}
DeltaEvent(chunk) == [type |-> "", content |-> chunk]
DoneMarker == [type |-> "[DONE]"]
RawErrorEvent(m) == [type |-> "", error |-> m]

IsStream(endpoint) == endpoint \in {"/chat-stream", "/ask-stream"}
ChunkEvent(endpoint, chunk) ==
    IF endpoint = "/chat-stream" THEN ContentEvent(chunk) ELSE DeltaEvent(chunk)
FailureEvent(endpoint, m) ==
    IF endpoint = "/chat-stream" THEN ErrorEvent(m) ELSE RawErrorEvent(m)
CompletionEvent(endpoint, loc) ==
    IF endpoint = "/chat-stream" THEN DoneEvent(loc.wassummarized, loc.summaryText) ELSE DoneMarker

\* A plausible slip: the first message is kept instead of the last.
currentMessageFirst(messages) == messages[1]

\* const currentMessage = messages[messages.length - 1]
currentMessage(messages) == messages[Len(messages)]

\* A plausible slip: the whole history is handed to the summarization.
messagesToSummarizeAll(messages) == messages

\* messages.slice(0, -1)
messagesToSummarize(messages) == SubSeq(messages, 1, Len(messages) - 1)

\* A plausible slip: the summary is sent without its announcing prefix.
CompactedMessagesBare(summaryText, current) ==
    << Msg("system", summaryText), current >>

\* finalMessages = [{role: 'system', content: `Previous conversation summary: ...`}, currentMessage]
CompactedMessages(summaryText, current) ==
    << Msg("system", "Previous conversation summary: " \o summaryText), current >>

\* the options the handler hands to chatCompletion
CompletionOptions(endpoint, finalMessages, body) ==
    CASE endpoint = "/chat" ->
            Spread([messages |-> Arr(finalMessages)], Without(body, {"messages"}))
      [] endpoint = "/chat-stream" ->
            Spread([messages |-> Arr(finalMessages), stream |-> FALSE], Without(body, {"messages"}))
      [] endpoint = "/ask-stream" ->
            Spread([messages |-> Arr(<< Msg("user", body.question) >>), stream |-> TRUE],
                   Without(body, {"question"}))
      [] endpoint = "/ask" ->
            AskOptions(body.question, Without(body, {"question"}))
      [] endpoint = "/summarize" ->
            SummarizeOptions(body.messages.items, EmptyObject)

\* if (!messages || !Array.isArray(messages))
HistoryInvalid(body) ==
    ~Has(body, "messages") \/ ~body.messages.truthy \/ ~body.messages.isArray

\* A plausible slip: only an absent question is refused, an empty one is not.
QuestionInvalidAbsentOnly(body) == ~Has(body, "question")

\* if (!question)
QuestionInvalid(body) == ~Has(body, "question") \/ body.question = ""

ValidationFailure(endpoint) ==
    CASE endpoint = "/chat-stream" ->
            [error |-> "Invalid request",
             message |-> "Please provide a messages array in the request body"]
      [] endpoint = "/chat" ->
            [error |-> "Missing required field",
             message |-> "Please provide a messages array in the request body"]
      [] endpoint \in {"/ask-stream", "/ask"} ->
            [error |-> "Missing required field",
             message |-> "Please provide a question in the request body"]
      [] endpoint = "/summarize" ->
            [error |-> "Missing required field",
             message |-> "Please provide a messages array in the request body"]

ApiErrorBody(m) == [error |-> "API Error", message |-> m]

----------------------------------------------------------------------------
(* The server: requests and handlers, one step per stretch between awaits *)

Turns(n) ==
    [i \in 1..n |-> Msg(IF i % 2 = 1 THEN "user" ELSE "assistant", "turn " \o ToString(i))]

ChatHistories ==
    { <<>>,
      << Msg("user", "Hello!") >>,
      << Msg("user", Repeat("x", DefaultMaxTokensEstimate * 4)) >>,
      << Msg("assistant", Repeat("x", DefaultMaxTokensEstimate * 4)), Msg("user", "And then?") >>,
      ScenarioMessages,
      Turns(DefaultMaxMessages - 1),
      Turns(DefaultMaxMessages),
      Turns(DefaultMaxMessages + 1) }

ChatBodies ==
    {[messages |-> Arr(h)] : h \in ChatHistories}
    \cup { [messages |-> Arr(Turns(DefaultMaxMessages)), model |-> "sonar",
            temperature |-> "0.7", max_tokens |-> 1000],
           EmptyObject,
           [messages |-> NotArr(TRUE)],
           [messages |-> NotArr(FALSE)] }

AskBodies ==
    { [question |-> "What is the capital of France?"],
      [question |-> "What is AI?", model |-> "sonar", temperature |-> "0.7"],
      [question |-> "What is AI?", messages |-> NotArr(TRUE)],
      [question |-> ""],
      EmptyObject }

GetEndpoints == {"/models", "/api-key", "/config", "/api"}
Bodies(endpoint) ==
    IF endpoint \in {"/ask-stream", "/ask"} THEN AskBodies
    ELSE IF endpoint \in GetEndpoints THEN {EmptyObject}
    ELSE ChatBodies
Endpoints == {"/chat", "/chat-stream", "/ask-stream", "/ask", "/summarize"} \cup GetEndpoints

SInit ==
    /\ env \in {[PERPLEXITY_DEFAULT_MODEL |-> m, PERPLEXITY_API_KEY |-> k] :
                   m \in {"", "sonar-pro"}, k \in {""} \cup ApiKeys}
    /\ sIdle
    /\ cIdle
    /\ ssIdle
    /\ bIdle

\* the handler calls chatCompletion with the final messages and awaits it
BeginCompletion(endpoint, body, res, loc, requestsSoFar) ==
    /\ sLoc' = loc
    /\ sRes' = IF endpoint = "/chat-stream"
               THEN Write(res, StatusEvent("Generating response..."))
               ELSE res
    /\ sRequests' = Append(requestsSoFar,
                           PostChatCompletions(CompletionOptions(endpoint, loc.finalMessages, body)))
    /\ sPc' = "complete"

\* A plausible change: the completion of the uncompacted history is started
\* together with the summarization instead of after it.
ChatReceiveParallel(endpoint, body) ==
    IF HistoryInvalid(body)
    THEN /\ sRes' = Json(NoResponseYet, 400, ValidationFailure(endpoint))
         /\ sPc' = "done"
         /\ sLoc' = NoLocals /\ sRequests' = <<>>
    ELSE LET messages == body.messages.items
             opened == IF endpoint = "/chat-stream" THEN WriteHead(NoResponseYet, 200)
                       ELSE NoResponseYet
             loc == [NoLocals EXCEPT !.finalMessages = messages]
         IN  IF /\ ShouldSummarize(messages, DefaultMaxMessages, DefaultMaxTokensEstimate)
                /\ Len(messagesToSummarize(messages)) > 0
             THEN /\ sRes' = opened
                  /\ sRequests' = << PostChatCompletions(
                                        SummarizeOptions(messagesToSummarize(messages), EmptyObject)),
                                     PostChatCompletions(CompletionOptions(endpoint, messages, body)) >>
                  /\ sLoc' = loc
                  /\ sPc' = "summarize"
             ELSE BeginCompletion(endpoint, body, opened, loc, <<>>)

\* /chat and /chat-stream from the start of the handler to its first await
ChatReceive(endpoint, body) ==
    IF HistoryInvalid(body)
    THEN /\ sRes' = Json(NoResponseYet, 400, ValidationFailure(endpoint))
         /\ sPc' = "done"
         /\ sLoc' = NoLocals /\ sRequests' = <<>>
    ELSE LET messages == body.messages.items
             opened == IF endpoint = "/chat-stream" THEN WriteHead(NoResponseYet, 200)
                       ELSE NoResponseYet
             loc == [NoLocals EXCEPT !.finalMessages = messages]
         IN  IF /\ ShouldSummarize(messages, DefaultMaxMessages, DefaultMaxTokensEstimate)
                /\ Len(messagesToSummarize(messages)) > 0
             THEN /\ sRes' = IF endpoint = "/chat-stream"
                             THEN Write(opened, StatusEvent("Summarizing conversation history..."))
                             ELSE opened
                  /\ sRequests' = << PostChatCompletions(
                                        SummarizeOptions(messagesToSummarize(messages), EmptyObject)) >>
                  /\ sLoc' = loc
                  /\ sPc' = "summarize"
             ELSE BeginCompletion(endpoint, body, opened, loc, <<>>)

\* /ask-stream from the start of the handler to its first await
AskStreamReceive(body) ==
    IF QuestionInvalid(body)
    THEN /\ sRes' = Json(NoResponseYet, 400, ValidationFailure("/ask-stream"))
         /\ sPc' = "done"
         /\ sLoc' = NoLocals /\ sRequests' = <<>>
    ELSE LET opened == WriteHead(NoResponseYet, 200)
             options == CompletionOptions("/ask-stream", <<>>, body)
         IN  /\ sLoc' = NoLocals
             /\ IF MessagesInvalid(options)
                THEN /\ sRes' = End(Write(opened, RawErrorEvent(ChatCompletionRejected.error.message)))
                     /\ sRequests' = <<>>
                     /\ sPc' = "done"
                ELSE /\ sRes' = opened
                     /\ sRequests' = << PostChatCompletions(options) >>
                     /\ sPc' = "complete"

\* /ask from the start of the handler to its await of ask, or to the catch
\* block when chatCompletion throws before it sends anything
AskReceive(body) ==
    IF QuestionInvalid(body)
    THEN /\ sRes' = Json(NoResponseYet, 400, ValidationFailure("/ask"))
         /\ sPc' = "done"
         /\ sLoc' = NoLocals /\ sRequests' = <<>>
    ELSE LET options == CompletionOptions("/ask", <<>>, body)
         IN  /\ sLoc' = NoLocals
             /\ IF MessagesInvalid(options)
                THEN /\ sRes' = Json(NoResponseYet, 500,
                                     ApiErrorBody(AskSettled(ChatCompletionRejected).error.message))
                     /\ sRequests' = <<>>
                     /\ sPc' = "done"
                ELSE /\ sRes' = NoResponseYet
                     /\ sRequests' = << PostChatCompletions(options) >>
                     /\ sPc' = "complete"

\* /summarize from the start of the handler to its await of summarizeConversation
SummarizeReceive(body) ==
    IF HistoryInvalid(body)
    THEN /\ sRes' = Json(NoResponseYet, 400, ValidationFailure("/summarize"))
         /\ sPc' = "done"
         /\ sLoc' = NoLocals /\ sRequests' = <<>>
    ELSE /\ sRes' = NoResponseYet
         /\ sLoc' = NoLocals
         /\ sRequests' = << PostChatCompletions(CompletionOptions("/summarize", <<>>, body)) >>
         /\ sPc' = "summarize"

\* the answer of requireClient when perplexityClient was never constructed
NotInitializedBody ==
    [error |-> "Perplexity client not initialized",
     message |-> "Please check your API key configuration"]

\* GET /api
HealthBody == [status |-> "running", service |-> "Perplexity API Client", version |-> "1.0.0"]

\* GET /config
ConfigBody ==
    [default_model |-> IF env.PERPLEXITY_DEFAULT_MODEL # "" THEN env.PERPLEXITY_DEFAULT_MODEL
                       ELSE "sonar",
     available_models |-> << "sonar" >>]

\* GET /api-key
ApiKeyBody == [api_key |-> GetApiKey(env.PERPLEXITY_API_KEY), status |-> "configured"]

\* the routes registered without requireClient answer at once
OpenReceive(endpoint) ==
    /\ sRes' = Json(NoResponseYet, 200, IF endpoint = "/config" THEN ConfigBody ELSE HealthBody)
    /\ sPc' = "done"
    /\ sLoc' = NoLocals /\ sRequests' = <<>>

\* A plausible slip: requireClient lets the request through.
RequireClientRefusesNever == FALSE

\* requireClient: if (!perplexityClient).  The client exists exactly when the
\* key was set at startup (lines 58-62).
RequireClientRefuses == env.PERPLEXITY_API_KEY = ""

\* the route of a request: requireClient, then the handler up to its first
\* await
Handle(endpoint, body) ==
    /\ sReq' = << [endpoint |-> endpoint, body |-> body] >>
    /\ IF endpoint \in {"/config", "/api"} THEN OpenReceive(endpoint)
       ELSE IF RequireClientRefuses
       THEN /\ sRes' = Json(NoResponseYet, 500, NotInitializedBody)
            /\ sPc' = "done"
            /\ sLoc' = NoLocals /\ sRequests' = <<>>
       ELSE IF endpoint = "/api-key"
       THEN /\ sRes' = Json(NoResponseYet, 200, ApiKeyBody)
            /\ sPc' = "done"
            /\ sLoc' = NoLocals /\ sRequests' = <<>>
       ELSE IF endpoint = "/models"
       THEN /\ sRes' = NoResponseYet
            /\ sPc' = "models"
            /\ sLoc' = NoLocals /\ sRequests' = << GetModels >>
       ELSE IF endpoint = "/ask-stream" THEN AskStreamReceive(body)
       ELSE IF endpoint = "/ask" THEN AskReceive(body)
       ELSE IF endpoint = "/summarize" THEN SummarizeReceive(body)
       ELSE ChatReceive(endpoint, body)

\* a request arrives at the server
SReceive(endpoint, body) ==
    /\ sPc = "idle"
    /\ Handle(endpoint, body)
    /\ UNCHANGED <<ssVars, env, bVars, cVars>>

\* the catch block of a handler: res.status(500).json(...).  With the event
\* stream already opened json throws inside the catch, the handler's promise
\* rejects with nobody to handle it, and the connection is left open or is torn
\* down with the process, depending on the runtime.
CatchOuter(m) ==
    IF JsonThrows(sRes)
    THEN /\ sPc' = "rejected"
         /\ \E c \in {"open", "destroyed"} : sRes' = [sRes EXCEPT !.conn = c]
    ELSE /\ sPc' = "done"
         /\ sRes' = Json(sRes, 500, ApiErrorBody(m))

\* summarizeConversation settles: /summarize answers; /chat and /chat-stream
\* go on to the completion call; or the handler goes to its catch block
SSummarySettled(outcome) ==
    /\ sPc = "summarize"
    /\ LET endpoint == sReq[1].endpoint
           body == sReq[1].body
           messages == body.messages.items
           logged == [sRequests EXCEPT ![1].outcome = << outcome >>]
           r == SummarizeSettled(ChatCompletionSettled(outcome))
       IN  IF r.ok /\ endpoint = "/summarize"
           THEN /\ sRequests' = logged
                /\ sLoc' = sLoc
                /\ sPc' = "done"
                /\ sRes' = Json(sRes, 200, [summary |-> r.value,
                                            originalMessageCount |-> Len(messages)])
           ELSE IF r.ok
           THEN BeginCompletion(endpoint, body,
                    IF endpoint = "/chat-stream"
                    THEN Write(sRes, SummaryEvent(r.value, Len(messages)))
                    ELSE sRes,
                    [sLoc EXCEPT !.summaryText = r.value,
                                 !.finalMessages = CompactedMessages(r.value, currentMessage(messages)),
                                 !.wassummarized = TRUE],
                    logged)
           ELSE /\ sRequests' = logged
                /\ sLoc' = sLoc
                /\ CatchOuter(r.error.message)
    /\ UNCHANGED <<ssVars, env, bVars, cVars, sReq>>

\* getModels settles: /models answers with the provider's list, or the handler
\* goes to its catch block
SModelsSettled(outcome) ==
    /\ sPc = "models"
    /\ sRequests' = [sRequests EXCEPT ![1].outcome = << outcome >>]
    /\ sLoc' = sLoc
    /\ IF GetModelsSettled(outcome).ok
       THEN /\ sPc' = "done"
            /\ sRes' = Json(sRes, 200, GetModelsSettled(outcome).value)
       ELSE CatchOuter(GetModelsSettled(outcome).error.message)
    /\ UNCHANGED <<ssVars, env, bVars, cVars, sReq>>

\* A plausible slip: the final count reports the received history.
ChatResponseBodyOriginalCount(value, loc, messages) ==
    [response |-> value,
     summarized |-> loc.wassummarized,
     summary |-> IF loc.wassummarized THEN << loc.summaryText >> ELSE <<>>,
     originalMessageCount |-> Len(messages),
     finalMessageCount |-> Len(messages)]

\* the body of the /chat answer; summary is <<>> for null
ChatResponseBody(value, loc, messages) ==
    [response |-> value,
     summarized |-> loc.wassummarized,
     summary |-> IF loc.wassummarized THEN << loc.summaryText >> ELSE <<>>,
     originalMessageCount |-> Len(messages),
     finalMessageCount |-> Len(loc.finalMessages)]

\* chatCompletion (for /ask: ask) settles: /chat and /ask answer; the streams
\* emit their first chunk or their error event
SCompletionSettled(outcome) ==
    /\ sPc = "complete"
    /\ LET endpoint == sReq[1].endpoint
           cc == ChatCompletionSettled(outcome)
       IN  /\ sRequests' = [sRequests EXCEPT ![Len(sRequests)].outcome = << outcome >>]
           /\ IF endpoint = "/chat"
              THEN /\ sLoc' = sLoc
                   /\ IF cc.ok
                      THEN /\ sPc' = "done"
                           /\ sRes' = Json(sRes, 200,
                                 ChatResponseBody(cc.value, sLoc, sReq[1].body.messages.items))
                      ELSE CatchOuter(cc.error.message)
              ELSE IF endpoint = "/ask"
              THEN /\ sLoc' = sLoc
                   /\ IF AskSettled(cc).ok
                      THEN /\ sPc' = "done"
                           /\ sRes' = Json(sRes, 200, [question |-> sReq[1].body.question,
                                                       answer |-> AskSettled(cc).value])
                      ELSE CatchOuter(AskSettled(cc).error.message)
              ELSE IF cc.ok
                   THEN LET words == Split(FirstContentOr(cc.value, "No response received"), " ")
                        IN  /\ sLoc' = [sLoc EXCEPT !.words = words, !.i = 1]
                            /\ sRes' = Write(sRes, ChunkEvent(endpoint, words[1]))
                            /\ sPc' = "stream"
                   ELSE /\ sLoc' = sLoc
                        /\ sRes' = End(Write(sRes, FailureEvent(endpoint, cc.error.message)))
                        /\ sPc' = "done"
    /\ UNCHANGED <<ssVars, env, bVars, cVars, sReq>>

\* the 50 ms pause of the chunk loop ends: the next chunk, or the completion
\* event and the end of the response
SStreamTick ==
    /\ sPc = "stream"
    /\ LET endpoint == sReq[1].endpoint IN
       IF sLoc.i < Len(sLoc.words)
       THEN /\ sRes' = Write(sRes, ChunkEvent(endpoint, " " \o sLoc.words[sLoc.i + 1]))
            /\ sLoc' = [sLoc EXCEPT !.i = @ + 1]
            /\ sPc' = "stream"
       ELSE /\ sRes' = End(Write(sRes, CompletionEvent(endpoint, sLoc)))
            /\ sLoc' = sLoc
            /\ sPc' = "done"
    /\ UNCHANGED <<ssVars, env, bVars, cVars, sReq, sRequests>>

\* the client of a stream goes away while the chunks are emitted.  No handler
\* listens for the close of the request or of the response, so nothing of the
\* handler changes; res.write on the closed connection does not throw.
SDisconnect ==
    /\ sPc = "stream"
    /\ sRes.gone = <<>>
    /\ sRes' = [sRes EXCEPT !.gone = << Len(sRes.events) >>]
    /\ UNCHANGED <<ssVars, env, bVars, cVars, sReq, sPc, sLoc, sRequests>>

\* the handler is over; the server takes the next request
SNextRequest ==
    /\ sPc \in {"done", "rejected"}
    /\ sReq' = <<>> /\ sPc' = "idle" /\ sRes' = NoResponseYet /\ sLoc' = NoLocals
    /\ sRequests' = <<>>
    /\ UNCHANGED <<ssVars, env, bVars, cVars>>

SNext ==
    \/ \E endpoint \in Endpoints : \E body \in Bodies(endpoint) : SReceive(endpoint, body)
    \/ \E outcome \in ProviderOutcomes : SSummarySettled(outcome)
    \/ \E outcome \in ProviderOutcomes : SCompletionSettled(outcome)
    \/ \E outcome \in ProviderOutcomes : SModelsSettled(outcome)
    \/ SStreamTick
    \/ SDisconnect
    \/ SNextRequest

SpecServer == SInit /\ [][SNext]_vars

----------------------------------------------------------------------------
(* The browser chat: PerplexityChat talking to the server.  The chat turn   *)
(* is served by the handlers above; every event the server writes reaches   *)
(* the reader whole.  The /summarize call of the manual summarize runs      *)
(* beside it.                                                               *)

MaxSends == 2

\* the second is long enough for the next turn to be compacted by the server
UserTexts == {"Hi", Repeat("x", DefaultMaxTokensEstimate * 4)}

\* what the provider answers in the browser's runs: a text of three words, no
\* choices, and a refusal
BrowserOutcomes ==
    { [ok |-> TRUE, data |-> OkData(<< " hello  big world" >>)],
      [ok |-> TRUE, data |-> OkData(<<>>)],
      [ok |-> FALSE, error |-> AxiosResponseError(401, "Unauthorized",
                                  [errorMessage |-> "Invalid API key", message |-> ""])] }

\* JSON.stringify({messages: [...this.chatHistory], model, temperature, max_tokens})
ChatBody(history) ==
    [messages |-> Arr(history), model |-> ConfigBody.default_model,
     temperature |-> "0.7", max_tokens |-> 1000]

\* what data.response is when it is put where a string is expected
ObjectAsContent == "[object Object]"

\* data.response.choices?.[0]?.message?.content || data.response
RegularAssistantMessage(data) == FirstContentOr(data.response, ObjectAsContent)

\* A plausible slip: the chunk replaces what was received instead of being
\* appended to it.
AfterContentLast(assistantMessage, event) ==
    IF event.content # "" THEN event.content ELSE assistantMessage

\* processStreamWithContext on a content event: assistantMessage += content,
\* if the content is truthy
AfterContent(assistantMessage, event) ==
    IF event.content # "" THEN assistantMessage \o event.content ELSE assistantMessage

SummarizeButtonFrom == 10

\* addToHistory: the push, and updateContextStatus showing the summarize
\* button
AddToHistory(role, content) ==
    /\ bHistory' = Append(bHistory, Msg(role, content))
    /\ bSumm' = [bSumm EXCEPT !.shown = @ \/ Len(bHistory) + 1 >= SummarizeButtonFrom]

SorryMessage == "Sorry, I encountered an error. Please try again."

BInit ==
    /\ env \in {[PERPLEXITY_DEFAULT_MODEL |-> "", PERPLEXITY_API_KEY |-> k] : k \in {"", ApiKey}}
    /\ sIdle /\ cIdle /\ ssIdle
    /\ bHistory = <<>> /\ bDisabled = FALSE
    /\ bStreaming \in BOOLEAN
    /\ bTurn = NoTurn /\ bErrors = {} /\ bSumm = NoSummarize /\ bReplaced = <<>>
    /\ bSends = 0

\* handleSendMessage up to the fetch of handleStreamingResponseWithContext or
\* handleRegularResponseWithContext; the request reaches the server.  The
\* form and the Enter key are dead while the input is disabled.
BSendWithin(text, max) ==
    /\ ~bDisabled
    /\ text # ""
    /\ bSends < max
    /\ bSends' = bSends + 1
    /\ bDisabled' = TRUE
    /\ AddToHistory("user", text)
    /\ bErrors' = {}
    /\ bTurn' = [NoTurn EXCEPT !.pc = "fetch",
                               !.mode = IF bStreaming THEN "stream" ELSE "regular"]
    /\ Handle(IF bStreaming THEN "/chat-stream" ELSE "/chat", ChatBody(bHistory'))
    /\ UNCHANGED <<ssVars, env, cVars, bStreaming, bReplaced>>

BSend(text) == BSendWithin(text, MaxSends)

\* the turn throws: the catch blocks add their messages, and the finally of
\* handleSendMessage enables the input again
TurnFails(shown) ==
    /\ bErrors' = bErrors \cup shown \cup {SorryMessage}
    /\ bTurn' = [bTurn EXCEPT !.pc = "idle", !.outcome = "error"]
    /\ bDisabled' = FALSE

\* the turn returns: the finally of handleSendMessage enables the input again
TurnReturns ==
    /\ bErrors' = bErrors
    /\ bTurn' = [bTurn EXCEPT !.pc = "idle", !.outcome = "ok"]
    /\ bDisabled' = FALSE

\* fetch resolves.  /chat-stream: the status line decides between the reader
\* and the throw of line 599.  /chat: the answer is there as a whole; it is
\* refused (line 682) or its response goes to the history.
BResponse ==
    /\ bTurn.pc = "fetch"
    /\ IF bTurn.mode = "stream"
       THEN /\ sRes.headersSent
            /\ UNCHANGED <<bHistory, bSumm>>
            /\ IF sRes.statusCode # 200
               THEN TurnFails({"Failed to get streaming response"})
               ELSE /\ bTurn' = [bTurn EXCEPT !.pc = "read"]
                    /\ UNCHANGED <<bErrors, bDisabled>>
       ELSE /\ sRes.json # <<>>
            /\ IF sRes.statusCode # 200
               THEN /\ UNCHANGED <<bHistory, bSumm>>
                    /\ TurnFails({})
               ELSE /\ AddToHistory("assistant", RegularAssistantMessage(sRes.json[1]))
                    /\ bErrors' = bErrors
                    /\ bTurn' = [bTurn EXCEPT !.pc = "idle", !.outcome = "ok", !.appended = 1]
                    /\ bDisabled' = FALSE
    /\ UNCHANGED <<ssVars, env, cVars, sVars, bStreaming, bReplaced, bSends>>

\* processStreamWithContext takes the next event off the stream.  The throw
\* for an error event (line 653) is inside the try whose catch (line 655)
\* only warns, so an error event changes nothing.
BRead ==
    /\ bTurn.pc = "read"
    /\ bTurn.read < Len(sRes.events)
    /\ LET event == sRes.events[bTurn.read + 1] IN
       IF event.type = "content"
       THEN /\ bTurn' = [bTurn EXCEPT !.read = @ + 1,
                                      !.assistantMessage = AfterContent(@, event)]
            /\ UNCHANGED <<bHistory, bSumm>>
       ELSE IF event.type = "done"
       THEN /\ bTurn' = [bTurn EXCEPT !.read = @ + 1, !.appended = @ + 1]
            /\ AddToHistory("assistant", bTurn.assistantMessage)
       ELSE /\ bTurn' = [bTurn EXCEPT !.read = @ + 1]
            /\ UNCHANGED <<bHistory, bSumm>>
    /\ UNCHANGED <<ssVars, env, cVars, sVars, bStreaming, bDisabled, bErrors, bReplaced, bSends>>

\* reader.read() reports the end of the stream, or rejects because the
\* connection was torn down
BStreamOver ==
    /\ bTurn.pc = "read"
    /\ bTurn.read = Len(sRes.events)
    /\ sRes.conn \in {"ended", "destroyed"}
    /\ IF sRes.conn = "ended" THEN TurnReturns
       ELSE TurnFails({"Failed to get streaming response"})
    /\ UNCHANGED <<ssVars, env, cVars, sVars, bHistory, bStreaming, bSumm, bReplaced, bSends>>

\* the summarize button: summarizeConversation up to its fetch of /summarize,
\* which carries the history as it is now.  The button is disabled until the
\* call is over.
BSummarize ==
    /\ bSumm.shown
    /\ bSumm.pc = "idle"
    /\ bHistory # <<>>
    /\ bSumm' = [bSumm EXCEPT !.pc = "fetch", !.sent = bHistory]
    /\ UNCHANGED <<ssVars, env, cVars, sVars, bHistory, bStreaming, bDisabled, bTurn, bErrors,
                   bReplaced, bSends>>

\* the answer of /summarize for a history that is an array
SummarizeAnswer(outcome) ==
    IF RequireClientRefuses THEN Thrown(Error("HTTP error! status: 500"))
    ELSE IF SummarizeSettled(ChatCompletionSettled(outcome)).ok
    THEN SummarizeSettled(ChatCompletionSettled(outcome))
    ELSE Thrown(Error("HTTP error! status: 500"))

\* /summarize answers: the summary replaces the chat history, or the failure
\* is shown
BSummarizeSettled(outcome) ==
    /\ bSumm.pc = "fetch"
    /\ bSumm' = [bSumm EXCEPT !.pc = "idle", !.sent = <<>>]
    /\ IF SummarizeAnswer(outcome).ok
       THEN /\ bHistory' = << Msg("system", "Previous conversation summary: "
                                             \o SummarizeAnswer(outcome).value) >>
            /\ bReplaced' = Append(bReplaced, [before |-> bHistory, from |-> bSumm.sent])
            /\ bErrors' = bErrors
       ELSE /\ bErrors' = bErrors \cup {"Failed to summarize conversation"}
            /\ UNCHANGED <<bHistory, bReplaced>>
    /\ UNCHANGED <<ssVars, env, cVars, sVars, bStreaming, bDisabled, bTurn, bSends>>

\* the server's side of the chat turn
BServer ==
    \/ \E outcome \in BrowserOutcomes : SSummarySettled(outcome)
    \/ \E outcome \in BrowserOutcomes : SCompletionSettled(outcome)
    \/ SStreamTick

BNext ==
    \/ \E text \in UserTexts : BSend(text)
    \/ BResponse
    \/ BRead
    \/ BStreamOver
    \/ BServer

SpecBrowser == BInit /\ [][BNext]_vars

\* the chat with its summarize button: the turns it takes for the button to
\* be there, and one turn more.  The turns are short, so the server compacts
\* none of them.
MaxTurns == SummarizeButtonFrom \div 2 + 1
\* summaries that replace the history, after which the button is left alone
MaxSummaries == 1

BSNext ==
    \/ BSendWithin("Hi", MaxTurns)
    \/ BResponse
    \/ BRead
    \/ BStreamOver
    \/ \E outcome \in BrowserOutcomes : SCompletionSettled(outcome)
    \/ SStreamTick
    \/ (Len(bReplaced) < MaxSummaries /\ BSummarize)
    \/ \E outcome \in BrowserOutcomes : BSummarizeSettled(outcome)

SpecBrowserSummarize == BInit /\ [][BSNext]_vars

----------------------------------------------------------------------------
(* Properties of shouldSummarize, stated for SpecPure *)

\* the sum of the content lengths, counted position by position
RECURSIVE ContentLengthUpTo(_, _)
ContentLengthUpTo(messages, n) ==
    IF n = 0 THEN 0
    ELSE ContentLengthUpTo(messages, n - 1) + Len(messages[n].content)

ContentLength(messages) == ContentLengthUpTo(messages, Len(messages))

ssCalled == ssResult # <<>>
ssReturned == ssResult[1]
ssMax == ssThresholds[1]
ssTok == ssThresholds[2]
ssDefaults == ssThresholds = <<DefaultMaxMessages, DefaultMaxTokensEstimate>>

\* C1 as stated: shouldSummarize(c, M, T) is true exactly when len(c) >= M or
\* the estimate, sum of content lengths divided by 4, exceeds T (that is, the
\* sum exceeds 4*T); the three-message scenario gives false with the defaults.
C1_ExceedsEstimate ==
    ssCalled =>
        /\ ssReturned = (Len(ssMessages) >= ssMax \/ ContentLength(ssMessages) > 4 * ssTok)
        /\ (ssDefaults /\ ssMessages = ScenarioMessages) => ssReturned = FALSE

\* C1 amended: shouldSummarize(c, M, T) is true exactly when len(c) >= M or
\* the sum of content lengths is at least 4*T (the estimate reaches or exceeds
\* T); the three-message scenario gives false with the defaults.
C1_ReachesEstimate ==
    ssCalled =>
        /\ ssReturned = (Len(ssMessages) >= ssMax \/ ContentLength(ssMessages) >= 4 * ssTok)
        /\ (ssDefaults /\ ssMessages = ScenarioMessages) => ssReturned = FALSE

\* a call below the count threshold whose estimate is exactly T returned true
C1_Witness ==
    /\ ssCalled /\ ssReturned
    /\ ssThresholds = <<4, 1>>
    /\ Len(ssMessages) < ssMax
    /\ ContentLength(ssMessages) = 4 * ssTok

\* C2: with the default thresholds every conversation of length >= 20 gives
\* true, whatever the content lengths of its messages.
C2_CountAlone ==
    (ssCalled /\ ssDefaults /\ Len(ssMessages) >= 20) => ssReturned

\* a call on exactly 20 messages that are all empty
C2_Witness ==
    /\ ssCalled /\ ssDefaults /\ ssReturned
    /\ Len(ssMessages) = 20
    /\ \A i \in 1..Len(ssMessages) : ssMessages[i].content = ""

\* C3: below the count threshold, shouldSummarize is true when the total
\* content length is exactly maxTokenEstimate*4 and false one character below.
C3_TokenBoundary ==
    (ssCalled /\ Len(ssMessages) < ssMax) =>
        /\ ContentLength(ssMessages) = ssTok * 4 => ssReturned
        /\ ContentLength(ssMessages) = ssTok * 4 - 1 => ~ssReturned

\* a call with the default thresholds on exactly 12000 characters
C3_Witness ==
    /\ ssCalled /\ ssDefaults /\ ssReturned
    /\ Len(ssMessages) < ssMax
    /\ ContentLength(ssMessages) = 12000

\* a call with the default thresholds on 11999 characters returned false
C3_BelowReached ==
    /\ ssCalled /\ ssDefaults /\ ~ssReturned
    /\ ContentLength(ssMessages) = 11999

\* C17: shouldSummarize is monotonic under appending: with the thresholds
\* fixed, once a call on the conversation has returned true, every call after
\* any number of further appended messages returns true.
C17_MonotonicUnderAppend ==
    (ssCalled /\ ssSeenTrue) => ssReturned

\* true by the token threshold alone, then two more turns, then true again
C17_Witness ==
    /\ ssCalled /\ ssSeenTrue /\ ssReturned
    /\ ssAppends >= 2
    /\ Len(ssMessages) < ssMax

----------------------------------------------------------------------------
(* Properties of the library methods, stated for SpecClient *)

\* the kind of failure a surfaced error message announces
ErrorKind(e) ==
    IF StartsWith(e.message, "Perplexity API Error ") THEN "upstream"
    ELSE IF e.message = NoResponseMessage THEN "network"
    ELSE "other"

\* the provider failure an invocation met, if its request was settled by one
MetFailure(requests) ==
    IF requests # <<>> /\ requests[1].outcome # <<>> /\ ~requests[1].outcome[1].ok
    THEN << requests[1].outcome[1].error >>
    ELSE <<>>

NoResponseFailure(requests) ==
    /\ MetFailure(requests) # <<>>
    /\ MetFailure(requests)[1].response = <<>>
    /\ MetFailure(requests)[1].request

\* C8: two invocations that met the same provider failure surface an error of
\* the same kind and with the same message, whichever of chatCompletion, ask,
\* askWithContext and summarizeConversation each of them went through.
C8_UniformErrors ==
    ( /\ cPc = "thrown" /\ cPrev # <<>>
      /\ MetFailure(cRequests) # <<>>
      /\ MetFailure(cRequests) = MetFailure(cPrev[1].requests) )
    => /\ cResult[1].error.message = cPrev[1].result.error.message
       /\ ErrorKind(cResult[1].error) = ErrorKind(cPrev[1].result.error)

C10_RetriesNetworkError ==
    (cPc \in {"returned", "thrown"} /\ NoResponseFailure(cRequests)) => Len(cRequests) >= 2

cMethod == cCall[1].method
cOver == cPc \in {"returned", "thrown"}

\* C12: an invocation of ask(q, options) has handed the provider one request
\* whose conversation is exactly the one message {role: user, content: q},
\* whatever the options hold.
C12_AskSendsQuestionOnly ==
    (cCall # <<>> /\ cMethod = "ask")
    => /\ Len(cRequests) = 1
       /\ cRequests[1].data.messages = Arr(<< Msg("user", cCall[1].question) >>)

\* C13: an invocation askWithContext(q, priorMessages) whose options carry no
\* messages has issued exactly one provider request, whose message list is
\* priorMessages in order followed by the one message {role: user, content: q};
\* that request is no summarization request, also when shouldSummarize holds of
\* priorMessages, and the caller's priorMessages is as it was.
C13_ContextThenQuestion ==
    (cCall # <<>> /\ cMethod = "askWithContext" /\ ~Has(cCall[1].options, "messages"))
    => /\ Len(cRequests) = 1
       /\ cRequests[1].path = "/chat/completions"
       /\ cRequests[1].data.messages =
             Arr(cCall[1].context \o << Msg("user", cCall[1].question) >>)
       /\ ~StartsWith(cRequests[1].data.messages.items[1].content, SummaryInstruction)
       /\ cCall[1].contextAfter = cCall[1].context

\* askWithContext has returned for a context of which shouldSummarize holds
C13_Witness ==
    /\ cPc = "returned"
    /\ cMethod = "askWithContext"
    /\ cCall[1].options = EmptyObject
    /\ ShouldSummarize(cCall[1].context, DefaultMaxMessages, DefaultMaxTokensEstimate)
    /\ Len(cRequests[1].data.messages.items) = Len(cCall[1].context) + 1

\* the provider answered the invocation's request successfully, without choices
EmptyAnswer(requests) ==
    /\ requests # <<>> /\ requests[1].outcome # <<>>
    /\ requests[1].outcome[1].ok
    /\ requests[1].outcome[1].data.choices = <<>>

\* C14: when the provider answers successfully with no choices, ask and
\* askWithContext return the text "No response received" as their result and
\* throw nothing.
C14_EmptyAnswerSentinel ==
    (cOver /\ cMethod \in {"ask", "askWithContext"} /\ EmptyAnswer(cRequests))
    => cResult[1] = Returned("No response received")

C14_Witness ==
    /\ cPc = "returned"
    /\ cMethod = "ask"
    /\ EmptyAnswer(cRequests)
    /\ cResult[1].value = "No response received"

\* sub occurs in s
Contains(s, sub) ==
    \E i \in 1..(Len(s) - Len(sub) + 1) : SubSeq(s, i, i + Len(sub) - 1) = sub

UpstreamPrefix == "Perplexity API Error "

\* the message the provider sent with its failure, as handleError reads it
ProviderMessage(data) ==
    IF data.errorMessage # "" THEN data.errorMessage
    ELSE IF data.message # "" THEN data.message
    ELSE "Unknown error"

\* C15: an invocation of chatCompletion, ask, askWithContext,
\* summarizeConversation or getModels whose request the provider answered with
\* a failure status S and reason R throws an error whose message starts with
\* the upstream prefix and names S, R and the provider's error message; an
\* invocation whose request got no response throws an error whose message
\* does not start with the upstream prefix.
C15_UpstreamReported ==
    /\ (cPc = "thrown" /\ MetFailure(cRequests) # <<>> /\ MetFailure(cRequests)[1].response # <<>>)
       => LET r == MetFailure(cRequests)[1].response[1]
              m == cResult[1].error.message IN
          /\ StartsWith(m, UpstreamPrefix)
          /\ Contains(m, ToString(r.status))
          /\ Contains(m, r.statusText)
          /\ Contains(m, ProviderMessage(r.data))
    /\ (cPc = "thrown" /\ NoResponseFailure(cRequests))
       => ~StartsWith(cResult[1].error.message, UpstreamPrefix)

\* C24: every request that summarizeConversation sends is a single-turn
\* request, one user message holding the instruction and the "role: content"
\* lines of the given messages in their order, and carries max_tokens, which
\* is 500 whenever the caller's options set no max_tokens.
C24_SummarizationCapped ==
    (cCall # <<>> /\ cMethod = "summarizeConversation" /\ cRequests # <<>>)
    => /\ cRequests[1].data.messages = Arr(<< Msg("user", summaryPrompt(cCall[1].messages)) >>)
       /\ Has(cRequests[1].data, "max_tokens")
       /\ ~Has(cCall[1].options, "max_tokens") => cRequests[1].data.max_tokens = 500

----------------------------------------------------------------------------
(* Properties of the handlers, stated for SpecServer *)

sEndpoint == sReq[1].endpoint
sHistory == sReq[1].body.messages.items
sHandlerOver == sPc \in {"done", "rejected"}

sInitialized == env.PERPLEXITY_API_KEY # ""

\* the required field of the request is missing or malformed
sFieldInvalid ==
    /\ sReq # <<>>
    /\ LET body == sReq[1].body IN
       IF sEndpoint \in {"/ask", "/ask-stream"}
       THEN ~Has(body, "question") \/ body.question = ""
       ELSE /\ sEndpoint \in {"/chat", "/chat-stream", "/summarize"}
            /\ \/ ~Has(body, "messages")
               \/ body.messages = NotArr(TRUE) \/ body.messages = NotArr(FALSE)

\* the request was answered 400 with the validation failure of its endpoint
sRefused ==
    /\ sRes.statusCode = 400
    /\ sRes.json = << ValidationFailure(sEndpoint) >>
    /\ sRes.events = <<>>
    /\ sPc = "done"

\* the handler has called chatCompletion with messages that are no array
sCompletionMalformed ==
    /\ sReq # <<>> /\ sInitialized /\ ~sFieldInvalid
    /\ sEndpoint \in {"/ask", "/ask-stream"}
    /\ Has(sReq[1].body, "messages")
    /\ ~sReq[1].body.messages.isArray

\* the error the caller was given, "" if none
sErrorMessage ==
    IF sRes.json # <<>> /\ Has(sRes.json[1], "message") THEN sRes.json[1].message
    ELSE IF sRes.events # <<>> /\ Has(sRes.events[Len(sRes.events)], "error")
    THEN sRes.events[Len(sRes.events)].error
    ELSE ""

\* C11 as stated: a request whose required field is missing or malformed is
\* answered 400 with a validation failure and no provider request is issued
\* for it.
C11_Refused400 ==
    sFieldInvalid => (sRefused /\ sRequests = <<>>)

\* C11, amended: on a server whose provider client is initialized, a request
\* whose required field is missing or malformed (no question for /ask and
\* /ask-stream, messages absent or no array for /chat, /chat-stream and
\* /summarize) is answered 400 with the validation failure of its endpoint and
\* no provider request is issued for it; a chatCompletion call whose messages
\* are no array throws "Messages array is required" and issues no provider
\* request.  Without an API key the answer is the 500 of requireClient.
C11_RefusedWhenInitialized ==
    /\ (sFieldInvalid /\ sInitialized) => (sRefused /\ sRequests = <<>>)
    /\ (sFieldInvalid /\ ~sInitialized) => (sRes.statusCode = 500 /\ sRequests = <<>>)
    /\ sCompletionMalformed
         => /\ sRequests = <<>>
            /\ sHandlerOver
            /\ Contains(sErrorMessage, "Messages array is required")

\* /summarize has refused a history that is no array
C11_Witness ==
    /\ sReq # <<>> /\ sInitialized
    /\ sEndpoint = "/summarize"
    /\ sReq[1].body = [messages |-> NotArr(TRUE)]
    /\ sRefused /\ sRequests = <<>>

\* the request was compacted: the handler has set wassummarized
sCompacted == sReq # <<>> /\ sLoc.wassummarized

\* a provider request that carries the summarization prompt
IsSummarizationRequest(r) ==
    /\ r.path = "/chat/completions"
    /\ r.data.messages.items # <<>>
    /\ StartsWith(r.data.messages.items[1].content, SummaryInstruction)

\* the text summarizeConversation hands back for a successful provider answer
SummaryOf(outcome) ==
    IF outcome.data.choices = <<>> THEN "Unable to generate summary"
    ELSE IF outcome.data.choices[1] = "" THEN "Unable to generate summary"
    ELSE outcome.data.choices[1]

\* C4: whenever a /chat or /chat-stream request is compacted, the conversation
\* sent to the provider for the completion has in its second slot the last
\* message of the request's history, role and content unchanged.
C4_TailPreserved ==
    sCompacted =>
        /\ Len(sRequests) = 2
        /\ Len(sRequests[2].data.messages.items) >= 2
        /\ sRequests[2].data.messages.items[2].role = sHistory[Len(sHistory)].role
        /\ sRequests[2].data.messages.items[2].content = sHistory[Len(sHistory)].content

\* a compacted /chat-stream request of 21 turns whose completion call was made
C4_Witness ==
    /\ sCompacted
    /\ sEndpoint = "/chat-stream"
    /\ Len(sHistory) = 21
    /\ sHistory[1] # sHistory[21]
    /\ Len(sRequests) = 2

\* C5: whenever a history of length >= 2 is compacted, the conversation sent to
\* the completion call is exactly two messages: a system message whose content
\* is "Previous conversation summary: " followed by the summary returned for
\* the prefix (all messages but the last), then the last message.
C5_SummaryThenTail ==
    (sCompacted /\ Len(sHistory) >= 2) =>
        /\ Len(sRequests) = 2
        /\ sRequests[1].data.messages.items =
              << Msg("user", summaryPrompt(SubSeq(sHistory, 1, Len(sHistory) - 1))) >>
        /\ sRequests[1].outcome # <<>> /\ sRequests[1].outcome[1].ok
        /\ sRequests[2].data.messages.items =
              << [role |-> "system",
                  content |-> "Previous conversation summary: " \o SummaryOf(sRequests[1].outcome[1])],
                 sHistory[Len(sHistory)] >>

\* a compacted /chat request of two messages has been answered
C5_Witness ==
    /\ sCompacted
    /\ sEndpoint = "/chat"
    /\ Len(sHistory) = 2
    /\ sPc = "done"
    /\ sRes.statusCode = 200

\* the summarization call of the request failed
sSummarizationFailed ==
    /\ sReq # <<>> /\ sRequests # <<>>
    /\ IsSummarizationRequest(sRequests[1])
    /\ sRequests[1].outcome # <<>>
    /\ ~sRequests[1].outcome[1].ok

\* the caller has been told of a failure: an error status with a message, or
\* an error event that ends the stream
sErrorDelivered ==
    \/ /\ sRes.json # <<>> /\ sRes.statusCode >= 400 /\ sRes.conn = "ended"
    \/ /\ sRes.events # <<>> /\ sRes.conn = "ended"
       /\ Has(sRes.events[Len(sRes.events)], "error")

\* C6: if the summarization call of a /chat or /chat-stream request fails, no
\* completion call is issued for the request and, once the handler is over,
\* the failure has reached the caller as an error.
C6_SummaryFailurePropagates ==
    sSummarizationFailed =>
        /\ Len(sRequests) = 1
        /\ sHandlerOver => sErrorDelivered

\* the event stream of the request has been opened
sStreamOpened ==
    /\ sReq # <<>> /\ IsStream(sEndpoint)
    /\ sRes.headersSent /\ sRes.json = <<>>

IsFinalEvent(e) == e.type \in {"done", "[DONE]", "error"} \/ Has(e, "error")

\* C7: once the handler of a /chat-stream or /ask-stream request whose event
\* stream was opened is over, the stream carries exactly one final event (a
\* completion event or an error event), it is the last event, and the
\* connection has been ended.
C7_StreamTerminated ==
    (sStreamOpened /\ sHandlerOver) =>
        /\ sRes.conn = "ended"
        /\ sRes.events # <<>>
        /\ IsFinalEvent(sRes.events[Len(sRes.events)])
        /\ Cardinality({i \in 1..Len(sRes.events) : IsFinalEvent(sRes.events[i])}) = 1

\* the provider requests of the handled request, by what they ask for
sSummarizationCalls == {i \in 1..Len(sRequests) : IsSummarizationRequest(sRequests[i])}
sCompletionCall == sRequests[Len(sRequests)]

sIsChat == sReq # <<>> /\ sInitialized /\ sEndpoint \in {"/chat", "/chat-stream"} /\ ~sFieldInvalid

\* the answer of a successful /chat
sChatAnswered ==
    /\ sIsChat /\ sEndpoint = "/chat"
    /\ sPc = "done" /\ sRes.statusCode = 200 /\ sRes.json # <<>>

\* the events of a given type written so far
sEventsOfType(t) == {i \in 1..Len(sRes.events) : sRes.events[i].type = t}

\* a /chat-stream that was ended by its completion event
sChatStreamCompleted ==
    /\ sIsChat /\ sEndpoint = "/chat-stream"
    /\ sPc = "done" /\ sRes.events # <<>>
    /\ sRes.events[Len(sRes.events)].type = "done"

\* a history of one message of which shouldSummarize holds
sSingleLong ==
    /\ sIsChat
    /\ Len(sHistory) = 1
    /\ ShouldSummarize(sHistory, DefaultMaxMessages, DefaultMaxTokensEstimate)

\* C16: for a /chat or /chat-stream history of one message of which
\* shouldSummarize holds, the prefix to summarize is empty, no summarization
\* request is issued, the one request issued is the completion of the
\* one-message history as received, and the /chat answer and the completion
\* event of /chat-stream report summarized = false with summary = null; no
\* summary event is written.
C16_SingleMessageNotCompacted ==
    sSingleLong =>
        /\ messagesToSummarize(sHistory) = <<>>
        /\ sSummarizationCalls = {}
        /\ Len(sRequests) = 1
        /\ sCompletionCall.data.messages = Arr(sHistory)
        /\ ~sLoc.wassummarized
        /\ sChatAnswered => (sRes.json[1].summarized = FALSE /\ sRes.json[1].summary = <<>>)
        /\ sEventsOfType("summary") = {}
        /\ \A i \in sEventsOfType("done") :
              sRes.events[i].summarized = FALSE /\ sRes.events[i].summary = <<>>

\* /chat has answered a request whose history is one message of 12000
\* characters
C16_Witness ==
    /\ sSingleLong /\ sChatAnswered
    /\ ContentLength(sHistory) = DefaultMaxTokensEstimate * 4
    /\ sRes.json[1].summarized = FALSE

\* C18: the metadata of every successful /chat answer agree with what was sent
\* to the provider: summarized holds exactly when a summarization request was
\* issued; summary is null exactly when summarized is false, and else is the
\* text that follows the prefix in the system message of the completion
\* request; originalMessageCount is the length of the received history;
\* finalMessageCount is the length of the conversation of the completion
\* request, 2 when summarized and originalMessageCount otherwise.
C18_ChatMetadataConsistent ==
    sChatAnswered =>
        LET b == sRes.json[1]
            sent == sCompletionCall.data.messages.items
        IN  /\ b.summarized <=> (sSummarizationCalls # {})
            /\ (b.summary = <<>>) <=> ~b.summarized
            /\ b.summarized =>
                  sent[1] = Msg("system", "Previous conversation summary: " \o b.summary[1])
            /\ b.originalMessageCount = Len(sHistory)
            /\ b.finalMessageCount = Len(sent)
            /\ b.finalMessageCount = IF b.summarized THEN 2 ELSE b.originalMessageCount

\* /chat has answered a request it compacted from 21 messages to 2
C18_Witness ==
    /\ sChatAnswered
    /\ sRes.json[1].summarized
    /\ sRes.json[1].originalMessageCount = DefaultMaxMessages + 1
    /\ sRes.json[1].finalMessageCount = 2

\* C19 as stated: the completion event that ends a successful /chat-stream
\* carries summarized, summary and the original and final message counts of
\* the request, as the /chat answer does.
C19_DoneCarriesCounts ==
    sChatStreamCompleted =>
        LET e == sRes.events[Len(sRes.events)] IN
        /\ Has(e, "summarized") /\ Has(e, "summary")
        /\ Has(e, "originalMessageCount") /\ Has(e, "finalMessageCount")
        /\ e.originalMessageCount = Len(sHistory)
        /\ e.finalMessageCount = Len(sCompletionCall.data.messages.items)

\* C19, amended: the completion event that ends a successful /chat-stream
\* carries the summarized flag and the summary of the /chat answer to the same
\* request (summarized exactly when a summarization request was issued, summary
\* null when not summarized and else the text in the system message), and no
\* message counts; the original message count is carried by the summary event,
\* which is written exactly when the request was compacted.
C19_DoneCarriesSummary ==
    sChatStreamCompleted =>
        LET e == sRes.events[Len(sRes.events)]
            sent == sCompletionCall.data.messages.items
            answer == ChatResponseBody("", sLoc, sHistory)
        IN  /\ DOMAIN e = {"type", "summarized", "summary"}
            /\ e.summarized = answer.summarized /\ e.summary = answer.summary
            /\ e.summarized <=> (sSummarizationCalls # {})
            /\ (e.summary = <<>>) <=> ~e.summarized
            /\ e.summarized =>
                  sent[1] = Msg("system", "Previous conversation summary: " \o e.summary[1])
            /\ e.summarized <=> (sEventsOfType("summary") # {})
            /\ \A i \in sEventsOfType("summary") :
                  /\ sRes.events[i].originalMessageCount = Len(sHistory)
                  /\ sRes.events[i].summary = e.summary[1]

\* a compacted /chat-stream has been ended by its completion event
C19_Witness ==
    /\ sChatStreamCompleted
    /\ sRes.events[Len(sRes.events)].summarized
    /\ sRes.events[Len(sRes.events)].summary = << "Paris" >>

\* C20: once the client of a stream has disconnected during the emission of
\* the chunks, no further event is written to that stream, and the provider
\* requests of the handler and their outcomes are as they were.
C20_StopsOnDisconnect ==
    (sReq # <<>> /\ sRes.gone # <<>>)
    => /\ Len(sRes.events) = sRes.gone[1]
       /\ \A i \in 1..Len(sRequests) : sRequests[i].outcome # <<>>

\* the provider requests of the handled request that are not settled yet
sOutstanding == {i \in 1..Len(sRequests) : sRequests[i].outcome = <<>>}

\* C21: within one /chat or /chat-stream turn at most one provider request is
\* outstanding at any time; a second request is issued only after the first,
\* the summarization, was answered successfully; the turn issues at most two
\* requests, two exactly when it is compacted and one otherwise.
C21_OneOutstandingCall ==
    sIsChat =>
        /\ Cardinality(sOutstanding) <= 1
        /\ Len(sRequests) \in {1, 2}
        /\ (Len(sRequests) = 2) <=> sLoc.wassummarized
        /\ Len(sRequests) = 2 =>
              /\ IsSummarizationRequest(sRequests[1])
              /\ ~IsSummarizationRequest(sRequests[2])
              /\ sRequests[1].outcome # <<>> /\ sRequests[1].outcome[1].ok

\* a compacted turn waits for its completion call, the summarization settled
C21_Witness ==
    /\ sIsChat /\ sPc = "complete"
    /\ Len(sRequests) = 2
    /\ sOutstanding = {2}

\* C22: every request sent to /chat/completions, by a handler of the server or
\* by a method of the library, carries at least one message.
C22_NoEmptyConversation ==
    /\ \A i \in 1..Len(sRequests) :
          sRequests[i].path = "/chat/completions" => sRequests[i].data.messages.items # <<>>
    /\ \A i \in 1..Len(cRequests) :
          cRequests[i].path = "/chat/completions" => cRequests[i].data.messages.items # <<>>

\* C23: a server started without API key answers the routes that need no
\* provider (/api, /config) with 200, and answers /ask, /ask-stream, /chat,
\* /chat-stream, /summarize, /models and /api-key with the error "Perplexity
\* client not initialized", issuing no provider request.
C23_NotInitialized ==
    (sReq # <<>> /\ env.PERPLEXITY_API_KEY = "") =>
        IF sEndpoint \in {"/api", "/config"}
        THEN /\ sRes.statusCode = 200 /\ sRes.json # <<>> /\ sRes.conn = "ended"
             /\ sRequests = <<>>
        ELSE /\ sRes.statusCode = 500
             /\ sRes.json # <<>>
             /\ sRes.json[1].error = "Perplexity client not initialized"
             /\ sRes.events = <<>>
             /\ sRes.conn = "ended"
             /\ sRequests = <<>>
             /\ sPc = "done"

\* /models was refused on a server without API key
C23_Witness ==
    /\ sReq # <<>> /\ env.PERPLEXITY_API_KEY = ""
    /\ sEndpoint = "/models"
    /\ sRes.statusCode = 500 /\ sRequests = <<>>

\* C25: the api_key that /api-key returns for the key the client holds has the
\* length of the key, agrees with the key on its first 8 characters and is an
\* asterisk at every later position.
C25_KeyMasked ==
    (sReq # <<>> /\ sInitialized /\ sEndpoint = "/api-key") =>
        LET key == env.PERPLEXITY_API_KEY
            shown == sRes.json[1].api_key
        IN  /\ Len(shown) = Len(key)
            /\ \A i \in 1..Len(shown) :
                  IF i <= 8 THEN SubSeq(shown, i, i) = SubSeq(key, i, i)
                  ELSE SubSeq(shown, i, i) = "*"

\* a key of 21 characters was shown as 8 characters and 13 asterisks
C25_Witness ==
    /\ sReq # <<>> /\ sEndpoint = "/api-key"
    /\ env.PERPLEXITY_API_KEY = ApiKey
    /\ sRes.json # <<>>
    /\ sRes.json[1].api_key = "pplx-012*************"

----------------------------------------------------------------------------
\* Properties of the chat page

RECURSIVE bContentOf(_)
\* the contents of the content events of a stream, one after the other
bContentOf(events) ==
    IF events = <<>> THEN ""
    ELSE (IF Head(events).type = "content" THEN Head(events).content ELSE "")
         \o bContentOf(Tail(events))

\* the text of the provider's answer to the completion request of the turn
bResponseText == FirstContentOr(sCompletionCall.outcome[1].data, "No response received")

\* the streamed turn is over in the browser
bStreamedTurnOver == bTurn.mode = "stream" /\ bTurn.pc = "idle" /\ bTurn.outcome # ""

\* the events the turn's stream carried include an error event
bStreamHadError == \E i \in 1..Len(sRes.events) : sRes.events[i].type = "error"

\* C26: a summary that replaces chatHistory replaces only messages it was
\* computed from: every message of the history it replaced is, at the same
\* position, in the history that was sent to /summarize.
C26_NothingLost ==
    \A n \in 1..Len(bReplaced) :
        \A k \in 1..Len(bReplaced[n].before) :
            /\ k <= Len(bReplaced[n].from)
            /\ bReplaced[n].from[k] = bReplaced[n].before[k]

\* C27: a streamed turn whose stream carried an error event is over with the
\* error message of handleSendMessage shown and no assistant message appended.
C27_ErrorEventFailsTurn ==
    (bStreamedTurnOver /\ sRes.statusCode = 200 /\ bStreamHadError) =>
        /\ SorryMessage \in bErrors
        /\ bTurn.appended = 0

\* C28: the input is disabled exactly as long as a turn is in flight, and a
\* turn in flight always has a step of the browser or of the server ahead of
\* it, so that the turn, which is finite, ends and the input is enabled again.
C28_InputReenabled ==
    /\ bDisabled <=> bTurn.pc # "idle"
    /\ bDisabled => ENABLED (BResponse \/ BRead \/ BStreamOver \/ BServer)

C30_Alternates ==
    \A i \in 1..(Len(bHistory) - 1) :
        bHistory[i].role = "user" => bHistory[i + 1].role = "assistant"

====
